---- MODULE Spec2Model ----
(***************************************************************************)
(* Model of willsmith's Monte Carlo Tree Search agent (MCTSAgent), the     *)
(* Game base class it searches over and the simulator loop that drives it. *)
(*                                                                         *)
(* The Game class is abstract.  The game instance used here is a small     *)
(* subtraction game implementing the Game interface: a pile of tokens, the *)
(* mover takes 1 or 2 tokens, the game is terminal when the pile is empty  *)
(* and the agent who took the last token wins (with draw_rule, emptying    *)
(* the pile by taking 2 is a draw).                                        *)
(*                                                                         *)
(* A second part models the MDP base class with the Gridworld MDP and the  *)
(* step/undo evaluation of ApproxQLearningAgent._get_q_value (MDPSpec).    *)
(***************************************************************************)
EXTENDS Integers, Sequences, FiniteSets, TLC

\* ---------------------------------------------------------------- bounds
MaxPile == 3        \* largest starting pile of the game instance
MaxAgents == 2      \* largest NUM_PLAYERS of the game instance
MaxPlayouts == 3    \* playouts after which the wall clock must advance
MaxBudget == 1      \* largest allotted_time handed to search
ScenarioPlayouts == 21  \* the same as MaxPlayouts, for the long search
GridSize == 2       \* width and height of the Gridworld's grid
MaxTimesteps == 3   \* longest trial of the Gridworld

\* ------------------------------------------------------------- constants
NoAgent == -1       \* Python None as an agent id / winning id
NoNode == 0         \* Python None as a Node reference
NoAction == 0       \* Python None as an action
Scale == 1000000    \* fixed-point unit of the float scores of _UCT

VARIABLES
    game,           \* the live game of the simulator
    state,          \* the state argument of search (game.copy())
    current_state,  \* search's working copy, one per playout
    nodes,          \* every Node allocated since the last _reset, by id
    passes,         \* per node: completed backpropagation passes through it
    root,           \* self.root
    pc,             \* position of the simulator / search
    err,            \* the exception that ended the run, "" when none
    allotted_time,  \* search's allotted_time argument
    elapsed,        \* time() - start_time as last read
    playouts,       \* search's playouts counter
    node,           \* _selection's node variable
    selected_node,  \* search's selected_node
    new_node,       \* search's new_node
    winning_id,     \* search's winning_id
    max_action,     \* search's max_action, the value it returns
    playout_total,  \* self.playout_total
    action_node,    \* self.action_node
    mdp,            \* the Gridworld of _run_trial (curr_state of update)
    prev_state,     \* _run_trial's prev_state, a copy of mdp
    mpc,            \* position of _run_trial / ApproxQLearningAgent
    q_trace         \* _get_q_value's state at its call and after its step

mctsVars == <<game, state, current_state, nodes, passes, root, pc, err,
              allotted_time, elapsed, playouts, node, selected_node,
              new_node, winning_id, max_action, playout_total, action_node>>

mdpVars == <<mdp, prev_state, mpc, q_trace>>

vars == <<mctsVars, mdpVars>>

treeVars == <<nodes, passes, root>>
gameVars == <<game, state, current_state>>
localVars == <<allotted_time, elapsed, playouts, node, selected_node,
               new_node, winning_id>>
debugVars == <<max_action, playout_total, action_node>>

\* =================================================================== Game
Actions == {1, 2}

\* Game.__init__ followed by the game's own constructor.
NewGame(pile, num_agents, draw_rule) ==
    [pile |-> pile, start_pile |-> pile, draw_rule |-> draw_rule,
     winner |-> NoAgent, num_agents |-> num_agents, current_agent_id |-> 0]

is_terminal(s) == s.pile = 0

get_winning_id(s) == s.winner

\* The game's _get_legal_actions: the takes the pile allows, in ascending
\* order.
GameLegalActions(s) ==
    [i \in 1..(IF s.pile >= 2 THEN 2 ELSE s.pile) |-> i]

get_legal_actions(s) ==
    IF ~is_terminal(s) THEN GameLegalActions(s) ELSE <<>>

is_legal_action(s, action) == action \in Actions /\ action <= s.pile

\* The game's _take_action: remove the tokens, record the winner when the
\* pile is emptied.
GameTakeAction(s, action) ==
    [s EXCEPT !.pile = s.pile - action,
              !.winner = IF s.pile - action = 0
                            THEN IF s.draw_rule /\ action = 2
                                    THEN NoAgent
                                    ELSE s.current_agent_id
                            ELSE NoAgent]

\* _increment_current_agent_id wrapping one step late.
IncrementWrapLate(s) ==
    [s EXCEPT !.current_agent_id =
        IF s.current_agent_id + 1 > s.num_agents
           THEN 0 ELSE s.current_agent_id + 1]

_increment_current_agent_id(s) ==
    [s EXCEPT !.current_agent_id =
        IF s.current_agent_id + 1 = s.num_agents
           THEN 0 ELSE s.current_agent_id + 1]

\* Game.take_action on a legal action (the caller tests is_legal_action and
\* raises RuntimeError otherwise).
take_action(s, action) ==
    _increment_current_agent_id(GameTakeAction(s, action))

\* Game.reset
GameReset(s) ==
    [s EXCEPT !.current_agent_id = 0, !.pile = s.start_pile,
              !.winner = NoAgent]

\* Game.copy: a deep copy shares nothing, so the copy is the value itself.
Copy(s) == s

\* =================================================================== Node
Node(parent, agent_id) ==
    [parent |-> parent, children |-> <<>>, agent_id |-> agent_id,
     wins |-> 0, trials |-> 0]

\* children is a dict: a list of (action, node) entries in insertion order.
ChildActions(n) == {n.children[i].action : i \in DOMAIN n.children}

HasChild(n, action) == action \in ChildActions(n)

\* Node.get_child, defined when HasChild (KeyError otherwise).
get_child(n, action) ==
    LET i == CHOOSE j \in DOMAIN n.children : n.children[j].action = action
    IN n.children[i].node

add_child(n, action, id) ==
    IF HasChild(n, action)
       THEN [n EXCEPT !.children =
                [j \in DOMAIN n.children |->
                    IF n.children[j].action = action
                       THEN [action |-> action, node |-> id]
                       ELSE n.children[j]]]
       ELSE [n EXCEPT !.children =
                Append(n.children, [action |-> action, node |-> id])]

has_children(n) == Len(n.children) > 0

\* update_node with the trial counted only when the pass is not a win.
update_node_else(n, w) ==
    IF n.agent_id # NoAgent /\ w = n.agent_id
       THEN [n EXCEPT !.wins = n.wins + 1]
       ELSE [n EXCEPT !.trials = n.trials + 1]

\* update_node without the "agent_id is not None" test: None == None.
update_node_no_none_test(n, w) ==
    [n EXCEPT !.wins = IF w = n.agent_id THEN n.wins + 1 ELSE n.wins,
              !.trials = n.trials + 1]

update_node(n, w) ==
    [n EXCEPT !.wins = IF n.agent_id # NoAgent /\ w = n.agent_id
                          THEN n.wins + 1 ELSE n.wins,
              !.trials = n.trials + 1]

\* max_trials with min() in place of max().
max_trials_min(ns, n) ==
    LET ch == ns[n].children
        t(i) == ns[ch[i].node].trials
        best == CHOOSE i \in DOMAIN ch :
                    /\ \A j \in DOMAIN ch : t(j) >= t(i)
                    /\ \A j \in DOMAIN ch : j < i => t(j) > t(i)
    IN ch[best].action

\* max_trials returning the last of the entries with the largest value.
max_trials_last(ns, n) ==
    LET ch == ns[n].children
        t(i) == ns[ch[i].node].trials
        best == CHOOSE i \in DOMAIN ch :
                    /\ \A j \in DOMAIN ch : t(j) <= t(i)
                    /\ \A j \in DOMAIN ch : j > i => t(j) < t(i)
    IN ch[best].action

\* Node.max_trials on a node with children: max() returns the first entry,
\* in dict order, whose key value is the largest.
max_trials(ns, n) ==
    LET ch == ns[n].children
        t(i) == ns[ch[i].node].trials
        best == CHOOSE i \in DOMAIN ch :
                    /\ \A j \in DOMAIN ch : t(j) <= t(i)
                    /\ \A j \in DOMAIN ch : j < i => t(j) < t(i)
    IN ch[best].action

\* ============================================================== MCTSAgent
\* EXPLORATION_PARAM * sqrt(log(N) / t) in units of 1/Scale, rounded down,
\* for N = node.trials (row) and t = child_node.trials (column), t <= N.
ExplorationTable == <<
  <<0>>,
  <<1177410, 832554>>,
  <<1482303, 1048147, 855808>>,
  <<1665109, 1177410, 961351, 832554>>,
  <<1794122, 1268636, 1035837, 897061, 802356>>,
  <<1893018, 1338566, 1092934, 946509, 846583, 772821>>,
  <<1972769, 1394958, 1138979, 986384, 882249, 805379, 745636>>,
  <<2039333, 1442026, 1177410, 1019666, 912017, 832554, 770795, 721013>>,
  <<2096294, 1482303, 1210295, 1048147, 937491, 855808, 792324, 741151,
    698764>>,
  <<2145966, 1517427, 1238974, 1072983, 959705, 876086, 811098, 758713,
    715322, 678614>>,
  <<2189929, 1548513, 1264356, 1094964, 979366, 894034, 827715, 774256,
    729976, 692516, 660288>>,
  <<2229307, 1576358, 1287091, 1114653, 996976, 910111, 842599, 788179,
    743102, 704969, 672161, 643545>>,
  <<2264927, 1601545, 1307656, 1132463, 1012906, 924652, 856062, 800772,
    754975, 716233, 682901, 653828, 628177>>,
  <<2297414, 1624517, 1326413, 1148707, 1027435, 937915, 868341, 812258,
    765804, 726506, 692696, 663206, 637188, 614009>>,
  <<2327251, 1645615, 1343639, 1163625, 1040778, 950096, 879618, 822807,
    775750, 735941, 701692, 671819, 645463, 621984, 600893>>,
  <<2354820, 1665109, 1359555, 1177410, 1053107, 961351, 890038, 832554,
    784940, 744659, 710004, 679777, 653109, 629352, 608011, 588705>>,
  <<2380425, 1683215, 1374339, 1190212, 1064558, 971804, 899716, 841607,
    793475, 752756, 717725, 687169, 660211, 636195, 614623, 595106,
    577338>>,
  <<2404317, 1700109, 1388133, 1202158, 1075243, 981558, 908746, 850054,
    801439, 760312, 724929, 694066, 666837, 642580, 620792, 601079,
    583132, 566703>>,
  <<2426701, 1715936, 1401056, 1213350, 1085253, 990696, 917206, 857968,
    808900, 767390, 731677, 700528, 673045, 648563, 626571, 606675,
    588561, 571978, 556723>>,
  <<2447746, 1730818, 1413207, 1223873, 1094665, 999288, 925161, 865409,
    815915, 774045, 738023, 706603, 678882, 654187, 632005, 611936,
    593665, 576939, 561551, 547332>>,
  <<2467599, 1744855, 1424668, 1233799, 1103543, 1007393, 932664, 872427,
    822533, 780323, 744009, 712334, 684388, 659493, 637131, 616899,
    598480, 581618, 566106, 551771, 538474>>,
  <<2486379, 1758136, 1435512, 1243189, 1111942, 1015060, 939763, 879068,
    828793, 786262, 749671, 717756, 689597, 664512, 641980, 621594,
    603035, 586045, 570414, 555971, 542572, 530097>>,
  <<2504194, 1770732, 1445797, 1252097, 1119909, 1022332, 946496, 885366,
    834731, 791895, 755042, 722898, 694538, 669274, 646580, 626048,
    607356, 590244, 574501, 559954, 546459, 533895, 522160>>,
  <<2521132, 1782709, 1455576, 1260566, 1127484, 1029247, 952898, 891354,
    840377, 797252, 760149, 727788, 699236, 673800, 650953, 630283,
    611464, 594236, 578387, 563742, 550156, 537507, 525692, 514623>> >>

\* Node.value_estimate, in units of 1/Scale (trials > 0).
value_estimate(n) == (n.wins * Scale) \div n.trials

\* The score _UCT stores in results[action].
UCTScore(ns, n, action) ==
    LET child_node == ns[get_child(ns[n], action)]
    IN value_estimate(child_node)
         + ExplorationTable[ns[n].trials][child_node.trials]

\* The exception _UCT raises, "" when it raises none: the loop fails at the
\* first action, in enumeration order, whose child is missing (KeyError),
\* whose child has no trials (ZeroDivisionError in value_estimate), or, the
\* child being fine, when node.trials is 0 (ValueError in log); without
\* any valid action max() of the empty results raises ValueError.
UCTError(ns, n, s) ==
    LET valid_actions == get_legal_actions(s)
        failure(a) == IF ~HasChild(ns[n], a) THEN "KeyError"
                      ELSE IF ns[get_child(ns[n], a)].trials = 0
                              THEN "ZeroDivisionError"
                      ELSE IF ns[n].trials = 0 THEN "ValueError"
                      ELSE ""
        bad == {i \in DOMAIN valid_actions : failure(valid_actions[i]) # ""}
    IN IF valid_actions = <<>> THEN "ValueError"
       ELSE IF bad = {} THEN ""
       ELSE failure(valid_actions[CHOOSE i \in bad : \A j \in bad : i <= j])

\* _UCT with min() in place of max().
UCTMin(ns, n, s) ==
    LET valid_actions == get_legal_actions(s)
        score(i) == UCTScore(ns, n, valid_actions[i])
        best == CHOOSE i \in DOMAIN valid_actions :
                    /\ \A j \in DOMAIN valid_actions : score(j) >= score(i)
                    /\ \A j \in DOMAIN valid_actions :
                          j < i => score(j) > score(i)
    IN valid_actions[best]

\* _UCT returning the last of the actions with the largest score.
UCTLastOfTies(ns, n, s) ==
    LET valid_actions == get_legal_actions(s)
        score(i) == UCTScore(ns, n, valid_actions[i])
        best == CHOOSE i \in DOMAIN valid_actions :
                    /\ \A j \in DOMAIN valid_actions : score(j) <= score(i)
                    /\ \A j \in DOMAIN valid_actions :
                          j > i => score(j) < score(i)
    IN valid_actions[best]

\* _UCT when it raises nothing: max() over the results dict returns the
\* first action, in the order of valid_actions, with the largest score.
UCT(ns, n, s) ==
    LET valid_actions == get_legal_actions(s)
        score(i) == UCTScore(ns, n, valid_actions[i])
        best == CHOOSE i \in DOMAIN valid_actions :
                    /\ \A j \in DOMAIN valid_actions : score(j) <= score(i)
                    /\ \A j \in DOMAIN valid_actions :
                          j < i => score(j) < score(i)
    IN valid_actions[best]

\* unexplored_actions with >= in place of >.
UnexploredActionsGeq(ns, n, s) ==
    Len(get_legal_actions(s)) >= Len(ns[n].children)

\* unexplored_actions of _selection
UnexploredActions(ns, n, s) ==
    Len(get_legal_actions(s)) > Len(ns[n].children)

\* possible_actions without the test "action not in node.children".
PossibleActionsAll(ns, n, s) ==
    LET legal == get_legal_actions(s)
    IN {legal[i] : i \in DOMAIN legal}

\* possible_actions of _expansion
PossibleActions(ns, n, s) ==
    LET legal == get_legal_actions(s)
    IN {legal[i] : i \in DOMAIN legal} \ ChildActions(ns[n])

\* _backpropagation with the loop "while node.parent is not None".
RECURSIVE BackpropagationBelowTop(_, _, _)
BackpropagationBelowTop(ns, w, n) ==
    IF n = NoNode \/ ns[n].parent = NoNode THEN ns
    ELSE BackpropagationBelowTop([ns EXCEPT ![n] = update_node(ns[n], w)],
                                 w, ns[n].parent)

\* _backpropagation: update the node, then its parent, until None.
RECURSIVE Backpropagation(_, _, _)
Backpropagation(ns, w, n) ==
    IF n = NoNode THEN ns
    ELSE Backpropagation([ns EXCEPT ![n] = update_node(ns[n], w)], w,
                         ns[n].parent)

\* The nodes a backpropagation pass started at n visits.
RECURSIVE Visited(_, _)
Visited(ns, n) ==
    IF n = NoNode THEN {} ELSE {n} \cup Visited(ns, ns[n].parent)

\* _take_action that always starts a new tree.
TakeActionTreeFresh(ns, r, action) ==
    [nodes |-> Append(ns, Node(NoNode, NoAgent)), root |-> Len(ns) + 1]

\* _take_action with "except KeyError: pass".
TakeActionTreeKeep(ns, r, action) ==
    IF HasChild(ns[r], action)
       THEN [nodes |-> ns, root |-> get_child(ns[r], action)]
       ELSE [nodes |-> ns, root |-> r]

\* _take_action that leaves the root where it is.
TakeActionTreeStay(ns, r, action) == [nodes |-> ns, root |-> r]

\* _take_action: the (nodes, root) pair after the root reference moved.
TakeActionTree(ns, r, action) ==
    IF HasChild(ns[r], action)
       THEN [nodes |-> ns, root |-> get_child(ns[r], action)]
       ELSE [nodes |-> Append(ns, Node(NoNode, NoAgent)),
             root |-> Len(ns) + 1]

\* ============================================================== Gridworld
\* The Gridworld instance: a GridSize x GridSize grid with one wall, one
\* terminal square in the far corner and integer rewards.  The transition
\* function and GridworldDirection.get_offset are arguments of the model:
\* the offset of the action actually taken is any of the four unit moves.
Offsets == {<<0, 1>>, <<1, 0>>, <<0, -1>>, <<-1, 0>>}

\* self.action_space = list(GridworldDirection)
ActionSpace == {"N", "E", "S", "W"}

LivingRewards == {-1, 0}
TerminalRewards == {-3, 5}

Walls == {<<1, 0>>}
TerminalSquare == <<GridSize - 1, GridSize - 1>>

\* Grid.__init__: the coordinates in the lookup table; walls are left out.
Grid == {<<x, y>> : x \in 0..(GridSize - 1), y \in 0..(GridSize - 1)} \ Walls

\* self.grid[pos]: the GridworldSquare at pos.
Square(m, pos) ==
    [terminal |-> pos = TerminalSquare,
     reward |-> IF pos = TerminalSquare THEN m.terminal_reward ELSE 0]

\* MDP.__init__ and Gridworld.__init__ (with its _reset).
NewGridworld(living_reward, terminal_reward, start_pos) ==
    [timesteps |-> 0, total_reward |-> 0, reward_history |-> <<>>,
     living_reward |-> living_reward, terminal_reward |-> terminal_reward,
     start_pos |-> start_pos, terminal |-> FALSE, player_pos |-> start_pos,
     previous_positions |-> <<>>]

\* Python None as an MDP reference (prev_state = None).
NoState == [NewGridworld(0, 0, <<0, 0>>) EXCEPT !.timesteps = -1]

_valid_position(coord) == coord \in Grid

\* _determine_result for the action with the given offset.
_determine_result(m, offset) ==
    LET next_coord == <<m.player_pos[1] + offset[1],
                        m.player_pos[2] + offset[2]>>
        result_pos == IF _valid_position(next_coord)
                         THEN next_coord ELSE m.player_pos
    IN [pos |-> result_pos,
        reward |-> Square(m, result_pos).reward,
        terminal |-> Square(m, result_pos).terminal]

\* The reward _step returns: reward + self.living_reward.
StepReward(m, offset) == _determine_result(m, offset).reward + m.living_reward

\* Gridworld._step, the transition having picked the action with offset.
_step(m, offset) ==
    [m EXCEPT !.previous_positions = Append(@, m.player_pos),
              !.player_pos = _determine_result(m, offset).pos,
              !.terminal = _determine_result(m, offset).terminal]

\* MDP.is_legal_action
MDPIsLegalAction(m, action) == ~m.terminal /\ action \in ActionSpace

\* MDP.step on a legal action: _step, then the bookkeeping.
step(m, offset) ==
    [_step(m, offset) EXCEPT
        !.timesteps = @ + 1,
        !.total_reward = @ + StepReward(m, offset),
        !.reward_history = Append(@, StepReward(m, offset))]

\* _undo without "if self.terminal: self.terminal = False".
UndoKeepTerminal(m) ==
    [m EXCEPT !.player_pos = m.previous_positions[Len(m.previous_positions)],
              !.previous_positions =
                  SubSeq(@, 1, Len(m.previous_positions) - 1)]

\* Gridworld._undo
_undo(m) ==
    [m EXCEPT !.terminal = FALSE,
              !.player_pos = m.previous_positions[Len(m.previous_positions)],
              !.previous_positions =
                  SubSeq(@, 1, Len(m.previous_positions) - 1)]

\* MDP.undo with "self.total_reward -= self.reward_history[-1]" (no pop).
undoNoPop(m) ==
    _undo([m EXCEPT
              !.timesteps = @ - 1,
              !.total_reward = @ - m.reward_history[Len(m.reward_history)]])

\* MDP.undo: the bookkeeping, then _undo.
undo(m) ==
    _undo([m EXCEPT
              !.timesteps = @ - 1,
              !.total_reward = @ - m.reward_history[Len(m.reward_history)],
              !.reward_history = SubSeq(@, 1, Len(m.reward_history) - 1)])

\* MDP.reset with Gridworld._reset
MDPReset(m) ==
    [m EXCEPT !.timesteps = 0, !.total_reward = 0, !.reward_history = <<>>,
              !.terminal = FALSE, !.player_pos = m.start_pos,
              !.previous_positions = <<>>]

\* The Gridworld as constructed, no trial step taken.
MDPConstructed(living_reward, terminal_reward, start_pos) ==
    /\ mdp = NewGridworld(living_reward, terminal_reward, start_pos)
    /\ prev_state = NoState
    /\ mpc = "trial"
    /\ q_trace = [before |-> NoState, stepped |-> NoState]

\* ==================================================================== Init
Init ==
    /\ \E pile \in 1..MaxPile, num_agents \in 1..MaxAgents,
          draw_rule \in BOOLEAN :
            game = NewGame(pile, num_agents, draw_rule)
    /\ state = game
    /\ current_state = game
    /\ nodes = <<Node(NoNode, NoAgent)>>
    /\ passes = <<0>>
    /\ root = 1
    /\ pc = "idle"
    /\ err = ""
    /\ allotted_time = 0
    /\ elapsed = 0
    /\ playouts = 0
    /\ node = NoNode
    /\ selected_node = NoNode
    /\ new_node = NoNode
    /\ winning_id = NoAgent
    /\ max_action = NoAction
    /\ playout_total = 0
    /\ action_node = NoNode
    /\ MDPConstructed(0, 0, <<0, 0>>)

\* ================================================================= search
\* search that starts with self._reset().
SearchCallReset ==
    /\ pc = "idle"
    /\ ~is_terminal(game)
    /\ \E t \in 0..MaxBudget : allotted_time' = t
    /\ state' = Copy(game)
    /\ current_state' = Copy(game)
    /\ playouts' = 0
    /\ elapsed' = 0
    /\ pc' = "while"
    /\ nodes' = <<Node(NoNode, NoAgent)>>
    /\ passes' = <<0>>
    /\ root' = 1
    /\ UNCHANGED <<game, err, node, selected_node, new_node,
                   winning_id, debugVars>>
    /\ UNCHANGED mdpVars

\* _run_game calls current_agent.search(game.copy(), time_allowed);
\* search sets playouts = 0 and reads start_time.
SearchCall ==
    /\ pc = "idle"
    /\ ~is_terminal(game)
    /\ \E t \in 0..MaxBudget : allotted_time' = t
    /\ state' = Copy(game)
    /\ current_state' = Copy(game)
    /\ playouts' = 0
    /\ elapsed' = 0
    /\ pc' = "while"
    /\ UNCHANGED <<game, treeVars, err, node, selected_node, new_node,
                   winning_id, debugVars>>
    /\ UNCHANGED mdpVars

\* Wall-clock time passing before the loop condition reads time().
Tick ==
    /\ pc = "while"
    /\ elapsed < allotted_time
    /\ elapsed' = elapsed + 1
    /\ UNCHANGED <<gameVars, treeVars, pc, err, allotted_time, playouts,
                   node, selected_node, new_node, winning_id, debugVars>>
    /\ UNCHANGED mdpVars

\* The loop without state.copy(): the playout works on what the previous
\* playout left.
LoopTestNoCopy ==
    /\ pc = "while"
    /\ elapsed < allotted_time => playouts < MaxPlayouts
    /\ pc' = IF elapsed < allotted_time THEN "selection" ELSE "max_trials"
    /\ UNCHANGED <<gameVars, treeVars, err, localVars, debugVars>>
    /\ UNCHANGED mdpVars

\* The loop with the condition time() - start_time + 1 < allotted_time.
LoopTestOffByOne ==
    /\ pc = "while"
    /\ elapsed + 1 < allotted_time => playouts < MaxPlayouts
    /\ IF elapsed + 1 < allotted_time
          THEN /\ current_state' = Copy(state)
               /\ pc' = "selection"
          ELSE /\ current_state' = current_state
               /\ pc' = "max_trials"
    /\ UNCHANGED <<game, state, treeVars, err, localVars, debugVars>>
    /\ UNCHANGED mdpVars

\* while time() - start_time < allotted_time: current_state = state.copy()
\* (the clock advances at the latest once cap playouts have run).
LoopTestUpTo(cap) ==
    /\ pc = "while"
    /\ elapsed < allotted_time => playouts < cap
    /\ IF elapsed < allotted_time
          THEN /\ current_state' = Copy(state)
               /\ pc' = "selection"
          ELSE /\ current_state' = current_state
               /\ pc' = "max_trials"
    /\ UNCHANGED <<game, state, treeVars, err, localVars, debugVars>>
    /\ UNCHANGED mdpVars

LoopTest == LoopTestUpTo(MaxPlayouts)

\* _selection, up to the loop: node = self.root
SelectionEnter ==
    /\ pc = "selection"
    /\ node' = root
    /\ pc' = "selection_loop"
    /\ UNCHANGED <<gameVars, treeVars, err, allotted_time, elapsed,
                   playouts, selected_node, new_node, winning_id, debugVars>>
    /\ UNCHANGED mdpVars

\* The loop iteration without state.take_action(action).
SelectionStepNoSync ==
    /\ pc = "selection_loop"
    /\ ~UnexploredActions(nodes, node, current_state)
    /\ has_children(nodes[node])
    /\ IF UCTError(nodes, node, current_state) # ""
          THEN /\ err' = UCTError(nodes, node, current_state)
               /\ pc' = "error"
               /\ UNCHANGED node
          ELSE /\ node' = get_child(nodes[node],
                                    UCT(nodes, node, current_state))
               /\ UNCHANGED <<pc, err>>
    /\ UNCHANGED <<gameVars, treeVars, allotted_time, elapsed, playouts,
                   selected_node, new_node, winning_id, debugVars>>
    /\ UNCHANGED mdpVars

\* The loop iteration without node = node.get_child(action).
SelectionStepNoDescent ==
    /\ pc = "selection_loop"
    /\ ~UnexploredActions(nodes, node, current_state)
    /\ has_children(nodes[node])
    /\ IF UCTError(nodes, node, current_state) # ""
          THEN /\ err' = UCTError(nodes, node, current_state)
               /\ pc' = "error"
               /\ UNCHANGED current_state
          ELSE /\ current_state' =
                    take_action(current_state,
                                UCT(nodes, node, current_state))
               /\ UNCHANGED <<pc, err>>
    /\ UNCHANGED <<game, state, treeVars, allotted_time, elapsed, playouts,
                   node, selected_node, new_node, winning_id, debugVars>>
    /\ UNCHANGED mdpVars

\* One iteration of _selection's loop: the tree policy picks the action,
\* node moves to that child and the working state takes the action.
SelectionStep ==
    /\ pc = "selection_loop"
    /\ ~UnexploredActions(nodes, node, current_state)
    /\ has_children(nodes[node])
    /\ IF UCTError(nodes, node, current_state) # ""
          THEN /\ err' = UCTError(nodes, node, current_state)
               /\ pc' = "error"
               /\ UNCHANGED <<node, current_state>>
          ELSE LET action == UCT(nodes, node, current_state)
               IN /\ node' = get_child(nodes[node], action)
                  /\ current_state' = take_action(current_state, action)
                  /\ UNCHANGED <<pc, err>>
    /\ UNCHANGED <<game, state, treeVars, allotted_time, elapsed, playouts,
                   selected_node, new_node, winning_id, debugVars>>
    /\ UNCHANGED mdpVars

\* _selection's return: selected_node = self._selection(current_state)
SelectionReturn ==
    /\ pc = "selection_loop"
    /\ ~(~UnexploredActions(nodes, node, current_state)
         /\ has_children(nodes[node]))
    /\ selected_node' = node
    /\ node' = NoNode
    /\ pc' = "expansion"
    /\ UNCHANGED <<gameVars, treeVars, err, allotted_time, elapsed,
                   playouts, new_node, winning_id, debugVars>>
    /\ UNCHANGED mdpVars

\* _expansion reading current_agent_id after state.take_action(action).
ExpansionResultActorAfter(ns, n, s, action) ==
    [nodes |-> [Append(ns, Node(n, take_action(s, action).current_agent_id))
                  EXCEPT ![n] = add_child(ns[n], action, Len(ns) + 1)],
     new_child |-> Len(ns) + 1,
     state |-> take_action(s, action)]

\* _expansion creating the child as self.Node(None, state.current_agent_id).
ExpansionResultNoParent(ns, n, s, action) ==
    [nodes |-> [Append(ns, Node(NoNode, s.current_agent_id))
                  EXCEPT ![n] = add_child(ns[n], action, Len(ns) + 1)],
     new_child |-> Len(ns) + 1,
     state |-> take_action(s, action)]

\* _expansion with the given choice among possible_actions.
ExpansionResult(ns, n, s, action) ==
    [nodes |-> [Append(ns, Node(n, s.current_agent_id))
                  EXCEPT ![n] = add_child(ns[n], action, Len(ns) + 1)],
     new_child |-> Len(ns) + 1,
     state |-> take_action(s, action)]

\* _expansion without the test "if possible_actions": choice() of an empty
\* list raises IndexError.
ExpansionAlwaysChoice ==
    /\ pc = "expansion"
    /\ IF PossibleActions(nodes, selected_node, current_state) # {}
          THEN \E action \in
                    PossibleActions(nodes, selected_node, current_state) :
                 LET r == ExpansionResult(nodes, selected_node,
                                          current_state, action)
                 IN /\ nodes' = r.nodes
                    /\ passes' = Append(passes, 0)
                    /\ new_node' = r.new_child
                    /\ current_state' = r.state
                    /\ pc' = "simulation"
                    /\ err' = err
          ELSE /\ pc' = "error"
               /\ err' = "IndexError"
               /\ UNCHANGED <<nodes, passes, current_state, new_node>>
    /\ UNCHANGED <<game, state, root, allotted_time, elapsed, playouts,
                   node, selected_node, winning_id, debugVars>>
    /\ UNCHANGED mdpVars

\* new_node = self._expansion(current_state, selected_node)
Expansion ==
    /\ pc = "expansion"
    /\ IF PossibleActions(nodes, selected_node, current_state) # {}
          THEN \E action \in
                    PossibleActions(nodes, selected_node, current_state) :
                 LET r == ExpansionResult(nodes, selected_node,
                                          current_state, action)
                 IN /\ nodes' = r.nodes
                    /\ passes' = Append(passes, 0)
                    /\ new_node' = r.new_child
                    /\ current_state' = r.state
          ELSE /\ new_node' = selected_node
               /\ UNCHANGED <<nodes, passes, current_state>>
    /\ pc' = "simulation"
    /\ UNCHANGED <<game, state, root, err, allotted_time, elapsed, playouts,
                   node, selected_node, winning_id, debugVars>>
    /\ UNCHANGED mdpVars

\* One iteration of _simulation's loop with _random_simulation's choice.
SimulationStep ==
    /\ pc = "simulation"
    /\ ~is_terminal(current_state)
    /\ \E i \in DOMAIN get_legal_actions(current_state) :
          current_state' =
              take_action(current_state, get_legal_actions(current_state)[i])
    /\ UNCHANGED <<game, state, treeVars, pc, err, localVars, debugVars>>
    /\ UNCHANGED mdpVars

\* _simulation's return: winning_id = self._simulation(current_state)
SimulationReturn ==
    /\ pc = "simulation"
    /\ is_terminal(current_state)
    /\ winning_id' = get_winning_id(current_state)
    /\ pc' = "backpropagation"
    /\ UNCHANGED <<gameVars, treeVars, err, allotted_time, elapsed,
                   playouts, node, selected_node, new_node, debugVars>>
    /\ UNCHANGED mdpVars

\* search calling _backpropagation only "if winning_id is not None".
BackpropagationStepSkipDraw ==
    /\ pc = "backpropagation"
    /\ nodes' = IF winning_id = NoAgent THEN nodes
                ELSE Backpropagation(nodes, winning_id, new_node)
    /\ passes' = [i \in DOMAIN passes |->
                    IF winning_id # NoAgent /\ i \in Visited(nodes, new_node)
                       THEN passes[i] + 1 ELSE passes[i]]
    /\ playouts' = playouts + 1
    /\ selected_node' = NoNode
    /\ new_node' = NoNode
    /\ winning_id' = NoAgent
    /\ pc' = "while"
    /\ UNCHANGED <<gameVars, root, err, allotted_time, elapsed, node,
                   debugVars>>
    /\ UNCHANGED mdpVars

\* self._backpropagation(winning_id, new_node); playouts += 1
BackpropagationStep ==
    /\ pc = "backpropagation"
    /\ nodes' = Backpropagation(nodes, winning_id, new_node)
    /\ passes' = [i \in DOMAIN passes |->
                    IF i \in Visited(nodes, new_node)
                       THEN passes[i] + 1 ELSE passes[i]]
    /\ playouts' = playouts + 1
    /\ selected_node' = NoNode
    /\ new_node' = NoNode
    /\ winning_id' = NoAgent
    /\ pc' = "while"
    /\ UNCHANGED <<gameVars, root, err, allotted_time, elapsed, node,
                   debugVars>>
    /\ UNCHANGED mdpVars

\* search returning None for a root without children instead of raising.
SearchReturnNone ==
    /\ pc = "max_trials"
    /\ max_action' = IF has_children(nodes[root])
                        THEN max_trials(nodes, root) ELSE NoAction
    /\ playout_total' = playouts
    /\ action_node' = IF has_children(nodes[root])
                         THEN get_child(nodes[root], max_action')
                         ELSE NoNode
    /\ pc' = "returned"
    /\ UNCHANGED <<gameVars, treeVars, err, localVars>>
    /\ UNCHANGED mdpVars

\* max_action = self.root.max_trials() and the rest of search; max() of a
\* root without children raises ValueError.
SearchReturn ==
    /\ pc = "max_trials"
    /\ IF has_children(nodes[root])
          THEN /\ max_action' = max_trials(nodes, root)
               /\ playout_total' = playouts
               /\ action_node' = get_child(nodes[root], max_action')
               /\ pc' = "returned"
               /\ err' = err
          ELSE /\ pc' = "error"
               /\ err' = "ValueError"
               /\ UNCHANGED debugVars
    /\ UNCHANGED <<gameVars, treeVars, localVars>>
    /\ UNCHANGED mdpVars

\* ============================================================== simulator
\* _advance_by_action over a take_action that tests legality after applying
\* the action.
AdvanceByActionLateTest(action) ==
    /\ IF is_legal_action(game, action)
          THEN LET t == TakeActionTree(nodes, root, action)
               IN /\ game' = take_action(game, action)
                  /\ nodes' = t.nodes
                  /\ root' = t.root
                  /\ passes' = IF Len(t.nodes) > Len(nodes)
                                  THEN Append(passes, 0) ELSE passes
                  /\ pc' = "idle"
                  /\ err' = err
          ELSE /\ game' = take_action(game, action)
               /\ pc' = "error"
               /\ err' = "RuntimeError"
               /\ UNCHANGED treeVars
    /\ state' = game'
    /\ current_state' = game'
    /\ UNCHANGED <<localVars, debugVars>>
    /\ UNCHANGED mdpVars

\* _advance_by_action: game.take_action(action), then every agent's
\* take_action(action, ...), which is MCTSAgent._take_action.
AdvanceByAction(action) ==
    /\ IF is_legal_action(game, action)
          THEN LET t == TakeActionTree(nodes, root, action)
               IN /\ game' = take_action(game, action)
                  /\ nodes' = t.nodes
                  /\ root' = t.root
                  /\ passes' = IF Len(t.nodes) > Len(nodes)
                                  THEN Append(passes, 0) ELSE passes
                  /\ pc' = "idle"
                  /\ err' = err
          ELSE /\ pc' = "error"
               /\ err' = "RuntimeError"
               /\ UNCHANGED <<game, treeVars>>
    /\ state' = game'
    /\ current_state' = game'
    /\ UNCHANGED <<localVars, debugVars>>
    /\ UNCHANGED mdpVars

\* _run_game's loop body after search returned: advance by its action.
AdvanceBySearch ==
    /\ pc = "returned"
    /\ AdvanceByAction(max_action)

\* The turn of an agent that is not this one: whatever action its search
\* returned, which the game may reject.
AdvanceByOther ==
    /\ pc = "idle"
    /\ ~is_terminal(game)
    /\ \E action \in Actions : AdvanceByAction(action)

\* _run_game's start, for the next game of run_games: game.reset() and
\* agent.reset(), which is MCTSAgent._reset.
Reset ==
    /\ pc = "idle"
    /\ is_terminal(game)
    /\ game' = GameReset(game)
    /\ state' = game'
    /\ current_state' = game'
    /\ nodes' = <<Node(NoNode, NoAgent)>>
    /\ passes' = <<0>>
    /\ root' = 1
    /\ playout_total' = 0
    /\ action_node' = NoNode
    /\ UNCHANGED <<pc, err, localVars, max_action>>
    /\ UNCHANGED mdpVars

Next ==
    \/ SearchCall
    \/ Tick
    \/ LoopTest
    \/ SelectionEnter
    \/ SelectionStep
    \/ SelectionReturn
    \/ Expansion
    \/ SimulationStep
    \/ SimulationReturn
    \/ BackpropagationStep
    \/ SearchReturn
    \/ AdvanceBySearch
    \/ AdvanceByOther
    \/ Reset

Spec == Init /\ [][Next]_vars

\* search is sequential code: once called, its next statement runs; and the
\* wall clock that the loop condition reads keeps advancing.
SearchStep ==
    \/ LoopTest
    \/ SelectionEnter
    \/ SelectionStep
    \/ SelectionReturn
    \/ Expansion
    \/ SimulationStep
    \/ SimulationReturn
    \/ BackpropagationStep
    \/ SearchReturn

\* One call of search on the tree as construction left it.
SearchNext ==
    \/ SearchCall
    \/ Tick
    \/ SearchStep

FairSpec ==
    Init /\ [][SearchNext]_vars /\ WF_vars(Tick) /\ WF_vars(SearchStep)

\* ------------------------------------------------ one long search
\* A single search on a new tree over the game with pile 2: taking 2 wins
\* at once for the mover, taking 1 leaves the last token to the next agent.
ScenarioInit ==
    /\ \E num_agents \in 2..MaxAgents :
          game = NewGame(2, num_agents, FALSE)
    /\ state = game
    /\ current_state = game
    /\ nodes = <<Node(NoNode, NoAgent)>>
    /\ passes = <<0>>
    /\ root = 1
    /\ pc = "idle"
    /\ err = ""
    /\ allotted_time = 0
    /\ elapsed = 0
    /\ playouts = 0
    /\ node = NoNode
    /\ selected_node = NoNode
    /\ new_node = NoNode
    /\ winning_id = NoAgent
    /\ max_action = NoAction
    /\ playout_total = 0
    /\ action_node = NoNode
    /\ MDPConstructed(0, 0, <<0, 0>>)

ScenarioLoopTest == LoopTestUpTo(ScenarioPlayouts)

ScenarioNext ==
    \/ SearchCall
    \/ Tick
    \/ ScenarioLoopTest
    \/ SelectionEnter
    \/ SelectionStep
    \/ SelectionReturn
    \/ Expansion
    \/ SimulationStep
    \/ SimulationReturn
    \/ BackpropagationStep
    \/ SearchReturn

ScenarioSpec == ScenarioInit /\ [][ScenarioNext]_vars

\* ------------------------------------------------ trials of the Gridworld
\* run_mdp with an ApproxQLearningAgent on a Gridworld; the game agent
\* stays as constructed.
MDPInit ==
    /\ game = NewGame(1, 1, FALSE)
    /\ state = game
    /\ current_state = game
    /\ nodes = <<Node(NoNode, NoAgent)>>
    /\ passes = <<0>>
    /\ root = 1
    /\ pc = "idle"
    /\ err = ""
    /\ allotted_time = 0
    /\ elapsed = 0
    /\ playouts = 0
    /\ node = NoNode
    /\ selected_node = NoNode
    /\ new_node = NoNode
    /\ winning_id = NoAgent
    /\ max_action = NoAction
    /\ playout_total = 0
    /\ action_node = NoNode
    /\ \E living_reward \in LivingRewards,
          terminal_reward \in TerminalRewards,
          start_pos \in Grid \ {TerminalSquare} :
            MDPConstructed(living_reward, terminal_reward, start_pos)

\* _run_trial's loop body up to the call of agent.update:
\* prev_state = mdp.copy(); mdp.step(action)
TrialStep ==
    /\ mpc = "trial"
    /\ mdp.timesteps < MaxTimesteps
    /\ \E action \in ActionSpace, offset \in Offsets :
          /\ MDPIsLegalAction(mdp, action)
          /\ prev_state' = mdp
          /\ mdp' = step(mdp, offset)
    /\ mpc' = "update"
    /\ UNCHANGED <<q_trace, mctsVars>>

\* _get_q_value(curr_state, action) of _get_max_q_value, up to its
\* state.step(action); _calculate_difference calls it "if not terminal".
GetQValueStep ==
    /\ mpc = "update"
    /\ \E action \in ActionSpace, offset \in Offsets :
          /\ MDPIsLegalAction(mdp, action)
          /\ mdp' = step(mdp, offset)
    /\ q_trace' = [before |-> mdp, stepped |-> mdp']
    /\ mpc' = "q_curr"
    /\ UNCHANGED <<prev_state, mctsVars>>

\* The rest of that _get_q_value: state.undo(action)
GetQValueUndo ==
    /\ mpc = "q_curr"
    /\ mdp' = undo(mdp)
    /\ mpc' = "update"
    /\ UNCHANGED <<prev_state, q_trace, mctsVars>>

\* _get_q_value(prev_state, last_action), up to its state.step(action)
GetQValuePrevStep ==
    /\ mpc = "update"
    /\ \E action \in ActionSpace, offset \in Offsets :
          /\ MDPIsLegalAction(prev_state, action)
          /\ prev_state' = step(prev_state, offset)
    /\ q_trace' = [before |-> prev_state, stepped |-> prev_state']
    /\ mpc' = "q_prev"
    /\ UNCHANGED <<mdp, mctsVars>>

\* The rest of that _get_q_value, which ends update.
GetQValuePrevUndo ==
    /\ mpc = "q_prev"
    /\ prev_state' = undo(prev_state)
    /\ mpc' = "trial"
    /\ UNCHANGED <<mdp, q_trace, mctsVars>>

\* The next trial of run_mdp: mdp.reset(); prev_state = None
TrialReset ==
    /\ mpc = "trial"
    /\ mdp.terminal
    /\ mdp' = MDPReset(mdp)
    /\ prev_state' = NoState
    /\ UNCHANGED <<mpc, q_trace, mctsVars>>

MDPNext ==
    \/ TrialStep
    \/ GetQValueStep
    \/ GetQValueUndo
    \/ GetQValuePrevStep
    \/ GetQValuePrevUndo
    \/ TrialReset

MDPSpec == MDPInit /\ [][MDPNext]_vars

TypeOK ==
    /\ pc \in {"idle", "while", "selection", "selection_loop", "expansion",
               "simulation", "backpropagation", "max_trials", "returned",
               "error"}
    /\ root \in DOMAIN nodes
    /\ Len(passes) = Len(nodes)

\* ============================================================= properties
InSearch == {"while", "selection", "selection_loop", "expansion",
             "simulation", "backpropagation", "max_trials"}

\* The nodes on the parent path from n up to r inclusive (up to the top of
\* the chain when r is not on it).
RECURSIVE PathToRoot(_, _, _)
PathToRoot(ns, n, r) ==
    IF n = NoNode THEN {}
    ELSE IF n = r THEN {r}
    ELSE {n} \cup PathToRoot(ns, ns[n].parent, r)

\* The nodes reachable from n by following children, n included.
RECURSIVE Subtree(_, _)
Subtree(ns, n) ==
    {n} \cup UNION {Subtree(ns, ns[n].children[i].node) :
                        i \in DOMAIN ns[n].children}

ChildNodes(ns, n) == {ns[n].children[i].node : i \in DOMAIN ns[n].children}

\* The nodes reachable from n by following children and parent references.
RECURSIVE ReachableFrom(_, _)
ReachableFrom(ns, seen) ==
    LET more == seen \cup UNION {ChildNodes(ns, n) : n \in seen}
                     \cup ({ns[n].parent : n \in seen} \ {NoNode})
    IN IF more = seen THEN seen ELSE ReachableFrom(ns, more)

\* C1: when search has returned action a, a is a key of root.children and
\* the trials of root.children[a] are at least the trials of every child of
\* the root (the tree is as the playout loop left it).
C1_ReturnsMaxTrialsChild ==
    pc = "returned" =>
        /\ HasChild(nodes[root], max_action)
        /\ \A c \in ChildNodes(nodes, root) :
              nodes[get_child(nodes[root], max_action)].trials
                  >= nodes[c].trials

\* A search returned while the children of the root differ in trials.
C1_Witness ==
    /\ pc = "returned"
    /\ \E c, d \in ChildNodes(nodes, root) : nodes[c].trials < nodes[d].trials

\* C2: no step of search changes the state it was given (nor the live game
\* it was copied from), and every playout starts from a working copy equal
\* to that state.
C2_SearchKeepsState ==
    [][/\ pc \in InSearch => state' = state /\ game' = game
       /\ (pc = "while" /\ pc' = "selection") => current_state' = state']_vars

\* A second playout starts, from the input state, after the first playout
\* ran the working copy to a terminal state.
C2_Witness ==
    /\ pc = "selection"
    /\ playouts >= 1
    /\ current_state = state
    /\ ~is_terminal(state)

\* C3: every node has 0 <= wins <= trials, and its trials equal the number
\* of completed backpropagation passes that visited it.
C3_WinsTrialsPasses ==
    \A n \in DOMAIN nodes :
        /\ 0 <= nodes[n].wins
        /\ nodes[n].wins <= nodes[n].trials
        /\ nodes[n].trials = passes[n]

\* After a root-advance, a node that has won some but not all of its passes.
C3_Witness ==
    /\ nodes[root].parent # NoNode
    /\ \E n \in DOMAIN nodes :
          nodes[n].wins >= 1 /\ nodes[n].wins < nodes[n].trials

\* C4: expansion creates exactly one node when the frontier node has an
\* untried legal action and none otherwise, no other step of a playout
\* creates a node, and backpropagation adds exactly 1 to the trials of every
\* node on the path from the node expansion returned up to the root.
C4_PlayoutConservation ==
    [][/\ pc = "expansion" =>
            Len(nodes') = Len(nodes) +
                (IF \E i \in DOMAIN get_legal_actions(current_state) :
                        ~HasChild(nodes[selected_node],
                                  get_legal_actions(current_state)[i])
                    THEN 1 ELSE 0)
       /\ (pc \in InSearch /\ pc # "expansion") => Len(nodes') = Len(nodes)
       /\ pc = "backpropagation" =>
            \A n \in PathToRoot(nodes, new_node, root) :
                nodes'[n].trials = nodes[n].trials + 1]_vars

\* A playout whose expansion found no untried action is about to
\* backpropagate along a path of several nodes.
C4_Witness ==
    /\ pc = "backpropagation"
    /\ new_node = selected_node
    /\ new_node # root

\* The step is a simulator step that applied the legal action a to the live
\* game and handed it to the agent's root-advance.
AdvancedBy(a) ==
    /\ pc \in {"idle", "returned"}
    /\ pc' = "idle"
    /\ is_legal_action(game, a)
    /\ game' = take_action(game, a)

\* C5: a root-advance by an action that has a child makes that child the
\* root and leaves wins, trials and children of every node of the child's
\* subtree as they were.
C5_AdvanceKeepsSubtree ==
    [][\A a \in Actions :
          (AdvancedBy(a) /\ HasChild(nodes[root], a)) =>
              /\ root' = get_child(nodes[root], a)
              /\ \A n \in Subtree(nodes, root') :
                    /\ nodes'[n].wins = nodes[n].wins
                    /\ nodes'[n].trials = nodes[n].trials
                    /\ nodes'[n].children = nodes[n].children]_vars

\* The root is a former child that came with trials and a child of its own.
C5_Witness ==
    /\ pc = "idle"
    /\ nodes[root].parent # NoNode
    /\ nodes[root].trials >= 2
    /\ has_children(nodes[root])

\* C6: a root-advance by an action without a child under the root raises
\* nothing and makes a newly created node the root: no parent, no actor, no
\* children, wins = 0 and trials = 0.
C6_AdvanceUnexpandedFreshRoot ==
    [][\A a \in Actions :
          (AdvancedBy(a) /\ ~HasChild(nodes[root], a)) =>
              /\ err' = ""
              /\ root' \notin DOMAIN nodes
              /\ root' \in DOMAIN nodes'
              /\ nodes'[root'].parent = NoNode
              /\ nodes'[root'].agent_id = NoAgent
              /\ nodes'[root'].children = <<>>
              /\ nodes'[root'].wins = 0
              /\ nodes'[root'].trials = 0]_vars

\* A tree with children was replaced by a new root.
C6_Witness ==
    /\ pc = "idle"
    /\ root # 1
    /\ nodes[root] = Node(NoNode, NoAgent)
    /\ has_children(nodes[1])

\* C7 (as claimed): the root has no parent reference, and nothing but the
\* root's subtree is reachable from the root.
C7_RootHasNoParent ==
    /\ nodes[root].parent = NoNode
    /\ ReachableFrom(nodes, {root}) = Subtree(nodes, root)

\* C8 (as claimed): a backpropagation pass changes exactly the nodes on the
\* parent path from the node expansion returned up to the current root.
C8_BackpropStopsAtRoot ==
    [][pc = "backpropagation" =>
          \A n \in DOMAIN nodes :
              (nodes'[n] # nodes[n]) <=>
                  (n \in PathToRoot(nodes, new_node, root))]_vars

\* C9 (as claimed): a search with a positive budget on a state with a legal
\* action has completed a playout when the loop ends.
C9_PositiveBudgetRunsPlayout ==
    (pc \in {"max_trials", "returned"} /\ allotted_time > 0
        /\ get_legal_actions(state) # <<>>) => playouts >= 1

\* C9 (amended): a search whose first budget check read an elapsed time
\* below the budget has completed a playout when the loop ends; a search
\* that ran no playout read an elapsed time of at least the budget.
C9_PlayoutUnlessBudgetElapsed ==
    (pc \in {"max_trials", "returned"} /\ playouts = 0) =>
        elapsed >= allotted_time

\* A search with a positive budget returned after at least one playout.
C9_Witness ==
    /\ pc = "returned"
    /\ allotted_time > 0
    /\ playout_total >= 1

C11_MaxTrialsFirstInserted ==
    /\ \A n \in DOMAIN nodes :
          has_children(nodes[n]) =>
              LET best == get_child(nodes[n], max_trials(nodes, n))
              IN \A c \in ChildNodes(nodes, n) :
                    /\ nodes[c].trials <= nodes[best].trials
                    /\ nodes[c].trials = nodes[best].trials => best <= c
    /\ pc = "returned" =>
          \A c \in ChildNodes(nodes, root) :
              nodes[c].trials = nodes[get_child(nodes[root], max_action)].trials
                  => get_child(nodes[root], max_action) <= c

\* Search returned action 2, inserted before action 1 and tied with it on
\* trials.
C11_Witness ==
    /\ pc = "returned"
    /\ max_action = 2
    /\ HasChild(nodes[root], 1)
    /\ get_child(nodes[root], 2) < get_child(nodes[root], 1)
    /\ nodes[get_child(nodes[root], 1)].trials
          = nodes[get_child(nodes[root], 2)].trials

\* The search in progress or just ended started on a new tree: the root has
\* no parent and all its trials are playouts of this search.
StartedFresh ==
    /\ nodes[root].parent = NoNode
    /\ nodes[root].trials = playouts

\* C12 (as claimed): on a new tree and a state with exactly one legal
\* action, a search with a positive budget returns that action, the root
\* then having exactly one child whose trials equal the playouts run.
C12_ScenarioA ==
    (/\ pc \in {"returned", "error"}
     /\ err # "RuntimeError"
     /\ StartedFresh
     /\ Len(get_legal_actions(state)) = 1
     /\ allotted_time > 0) =>
        /\ pc = "returned"
        /\ max_action = get_legal_actions(state)[1]
        /\ Len(nodes[root].children) = 1
        /\ nodes[nodes[root].children[1].node].trials = playouts

\* C12 (amended): on a new tree and a state with exactly one legal action,
\* a search that returns has run at least one playout and returns that
\* action, the root then having exactly one child whose trials equal the
\* playouts run; a search that does not return ran no playout, its first
\* budget check having read an elapsed time of at least the budget.
C12_ScenarioAWhenPlayoutRan ==
    (/\ pc \in {"returned", "error"}
     /\ err # "RuntimeError"
     /\ StartedFresh
     /\ Len(get_legal_actions(state)) = 1) =>
        /\ pc = "returned" =>
              /\ playouts >= 1
              /\ max_action = get_legal_actions(state)[1]
              /\ Len(nodes[root].children) = 1
              /\ nodes[nodes[root].children[1].node].trials = playouts
        /\ pc = "error" =>
              /\ err = "ValueError"
              /\ playouts = 0
              /\ elapsed >= allotted_time

\* A search on a new tree and a one-action state returned after playouts
\* that went through the tree policy.
C12_Witness ==
    /\ pc = "returned"
    /\ StartedFresh
    /\ Len(get_legal_actions(state)) = 1
    /\ allotted_time > 0
    /\ playouts >= 2

\* C14: calling search changes no node, a root-advance along an action with
\* a child c makes c the root with every node as it was, and during the
\* search the root's trials grow exactly with the playouts counter; so the
\* second search starts from c's statistics of the first search and ends
\* with c.trials = those trials + k.
C14_ScenarioC ==
    [][/\ (pc = "idle" /\ pc' = "while") =>
             nodes' = nodes /\ root' = root /\ playouts' = 0
       /\ pc \in InSearch =>
             /\ root' = root
             /\ nodes'[root].trials - playouts'
                   = nodes[root].trials - playouts
             /\ playouts' \in {playouts, playouts + 1}
       /\ \A a \in Actions :
             (AdvancedBy(a) /\ HasChild(nodes[root], a)) =>
                 nodes' = nodes /\ root' = get_child(nodes[root], a)]_vars

\* A second search returned on a root that came out of the first search
\* with trials of its own.
C14_Witness ==
    /\ pc = "returned"
    /\ nodes[root].parent # NoNode
    /\ playouts >= 1
    /\ nodes[root].trials > playouts
    /\ nodes[root].wins >= 1

InRange(s) == 0 <= s.current_agent_id /\ s.current_agent_id < s.num_agents

\* C15: current_agent_id of the live game and of every copy stays within
\* [0, num_agents); every take_action that succeeds moves it to the next id
\* modulo num_agents, and reset sets it to 0.
C15_CurrentAgentId ==
    [][/\ InRange(game') /\ InRange(state') /\ InRange(current_state')
       /\ game'.pile < game.pile =>
             game'.current_agent_id
                 = (game.current_agent_id + 1) % game.num_agents
       /\ (pc \in {"selection_loop", "expansion", "simulation"}
              /\ current_state' # current_state) =>
             current_state'.current_agent_id
                 = (current_state.current_agent_id + 1)
                       % current_state.num_agents
       /\ game'.pile > game.pile => game'.current_agent_id = 0]_vars

\* In a game of two agents the id is back at 0 after two actions.
C15_Witness ==
    /\ game.num_agents = 2
    /\ game.start_pile = 3
    /\ game.pile = 1
    /\ game.current_agent_id = 0

\* C16: a simulator step that hands the live game an action either applies
\* a legal action, or the game rejects an illegal one: RuntimeError is
\* raised and the game is left as it was, pile and current_agent_id alike.
\* The action search returned is rejected only when it is illegal.
C16_IllegalActionRejected ==
    [][(pc \in {"idle", "returned"} /\ ~is_terminal(game) /\ pc' # "while") =>
          \/ /\ pc' = "idle"
             /\ \E a \in Actions :
                   is_legal_action(game, a) /\ game' = take_action(game, a)
          \/ /\ pc' = "error"
             /\ err' = "RuntimeError"
             /\ game' = game
             /\ \E a \in Actions : ~is_legal_action(game, a)
             /\ pc = "returned" => ~is_legal_action(game, max_action)]_vars

\* The game rejected an action while it was not terminal.
C16_Witness ==
    /\ pc = "error"
    /\ err = "RuntimeError"
    /\ game.pile = 1
    /\ game.current_agent_id = 1

\* C17: a node created by expansion has the frontier node as parent and the
\* mover of the working state before the action as agent_id; it is entered
\* in the frontier's children under an action that was legal and had no
\* child, and the working state takes exactly that action.
C17_ExpansionNode ==
    [][(pc = "expansion" /\ Len(nodes') # Len(nodes)) =>
          LET id == Len(nodes) + 1
          IN /\ Len(nodes') = id
             /\ new_node' = id
             /\ nodes'[id].parent = selected_node
             /\ nodes'[id].agent_id = current_state.current_agent_id
             /\ \E a \in Actions :
                   /\ is_legal_action(current_state, a)
                   /\ ~HasChild(nodes[selected_node], a)
                   /\ HasChild(nodes'[selected_node], a)
                   /\ get_child(nodes'[selected_node], a) = id
                   /\ current_state' = take_action(current_state, a)]_vars

\* Expansion created a node below a node other than the root, for a move of
\* agent 1.
C17_Witness ==
    /\ pc = "simulation"
    /\ new_node # selected_node
    /\ selected_node # root
    /\ nodes[new_node].parent = selected_node
    /\ nodes[new_node].agent_id = 1

\* C18: a backpropagation pass with winner w adds 1 to the wins of a node
\* exactly when it visits the node and the node's agent_id is set and
\* equals w; all other wins stay, so a draw changes no wins and a node
\* without agent_id never has a win.
C18_WinsIffActorWon ==
    [][/\ pc = "backpropagation" =>
             \A n \in DOMAIN nodes :
                 nodes'[n].wins = nodes[n].wins +
                     (IF /\ n \in Visited(nodes, new_node)
                         /\ nodes[n].agent_id # NoAgent
                         /\ nodes[n].agent_id = winning_id
                         THEN 1 ELSE 0)
       /\ \A n \in DOMAIN nodes' :
             nodes'[n].agent_id = NoAgent => nodes'[n].wins = 0]_vars

\* A drawn playout is about to be backpropagated through nodes with an
\* agent_id up to a root without one.
C18_Witness ==
    /\ pc = "backpropagation"
    /\ winning_id = NoAgent
    /\ nodes[new_node].agent_id # NoAgent
    /\ nodes[root].agent_id = NoAgent
    /\ root \in Visited(nodes, new_node)

\* The action under which node n hangs below its parent.
ActionTo(ns, n) ==
    CHOOSE a \in ChildActions(ns[ns[n].parent]) :
        get_child(ns[ns[n].parent], a) = n

\* State s0 advanced by the actions on the tree path from r down to n.
RECURSIVE StateAt(_, _, _, _)
StateAt(ns, n, r, s0) ==
    IF n = r THEN s0
    ELSE take_action(StateAt(ns, ns[n].parent, r, s0), ActionTo(ns, n))

\* C19: the node selection returned has fewer children than the working
\* state has legal actions, or has no children while the working state is
\* terminal; it lies in the root's subtree and the working state is the
\* input state advanced by the actions on the path from the root to it.
C19_SelectionFrontier ==
    pc = "expansion" =>
        /\ \/ Len(nodes[selected_node].children)
                  < Len(get_legal_actions(current_state))
           \/ /\ nodes[selected_node].children = <<>>
              /\ is_terminal(current_state)
        /\ selected_node \in Subtree(nodes, root)
        /\ current_state = StateAt(nodes, selected_node, root, state)

\* Selection descended below the root and stopped at a node with an untried
\* action.
C19_Witness ==
    /\ pc = "expansion"
    /\ selected_node # root
    /\ ~is_terminal(current_state)
    /\ nodes[root].parent # NoNode

\* The tree policy is about to be invoked on node with the working state.
PolicyInvoked ==
    /\ pc = "selection_loop"
    /\ ~UnexploredActions(nodes, node, current_state)
    /\ has_children(nodes[node])

\* C20: whenever the tree policy is invoked, every legal action of the
\* working state has a child under the node, and no KeyError is raised.
C20_PolicyFindsChildren ==
    /\ err # "KeyError"
    /\ PolicyInvoked =>
          \A i \in DOMAIN get_legal_actions(current_state) :
              HasChild(nodes[node], get_legal_actions(current_state)[i])

\* The tree policy is invoked below the root of a tree that was re-rooted.
C20_Witness ==
    /\ PolicyInvoked
    /\ nodes[root].parent # NoNode
    /\ Len(get_legal_actions(current_state)) = 2

\* C13: on a new tree over the game with pile 2 (taking 2 wins at once,
\* taking 1 loses), a search that returns after at least 20 playouts
\* returns action 2, and the child of action 2 has wins = trials.
C13_ScenarioB ==
    (pc = "returned" /\ playouts >= 20) =>
        /\ HasChild(nodes[root], 2)
        /\ nodes[get_child(nodes[root], 2)].wins
              = nodes[get_child(nodes[root], 2)].trials
        /\ max_action = 2

\* The search returned after 20 playouts or more, the losing action having
\* been inserted first and tried more than once.
C13_Witness ==
    /\ pc = "returned"
    /\ playouts >= 20
    /\ nodes[root].children[1].action = 1
    /\ nodes[get_child(nodes[root], 1)].trials >= 2
    /\ nodes[get_child(nodes[root], 1)].wins = 0

\* C21: whenever the tree policy is invoked on a node, the node and every
\* child of it have trials >= 1, and the invocation raises nothing (no
\* ZeroDivisionError from value_estimate, no ValueError from log).
C21_PolicyOnTriedNodes ==
    [][PolicyInvoked =>
          /\ nodes[node].trials >= 1
          /\ \A c \in ChildNodes(nodes, node) : nodes[c].trials >= 1
          /\ UCTError(nodes, node, current_state) = ""
          /\ err' = ""]_vars

\* The tree policy is invoked on a root that a root-advance along an
\* unexpanded action created, after an earlier tree was dropped.
C21_Witness ==
    /\ PolicyInvoked
    /\ node = root
    /\ root # 1
    /\ nodes[root].parent = NoNode
    /\ has_children(nodes[1])

\* children as it is after one more insertion under a new key.
Grown(old, new) ==
    /\ Len(new) >= Len(old)
    /\ \A i \in DOMAIN old : new[i] = old[i]

\* C22: the step in which expansion calls add_child inserts an action that
\* is legal in the working state and has no child under the frontier node;
\* and in every step but a reset of the tree, every node keeps each entry
\* of its children (the children only grow).
C22_AddChildOnlyNewKey ==
    [][/\ (pc = "expansion" /\ nodes' # nodes) =>
             \E a \in Actions :
                /\ is_legal_action(current_state, a)
                /\ ~HasChild(nodes[selected_node], a)
                /\ nodes'[selected_node].children =
                      Append(nodes[selected_node].children,
                             [action |-> a, node |-> Len(nodes) + 1])
       /\ ~(pc = "idle" /\ is_terminal(game)) =>
             \A n \in DOMAIN nodes :
                /\ n \in DOMAIN nodes'
                /\ Grown(nodes[n].children, nodes'[n].children)]_vars

\* Expansion added a second child to a node that got its first child
\* before a root-advance made it the root.
C22_Witness ==
    /\ pc = "simulation"
    /\ new_node # selected_node
    /\ nodes[selected_node].parent # NoNode
    /\ playouts = 0
    /\ Len(nodes[selected_node].children) = 2
    /\ nodes[selected_node].children[2].node = new_node

\* C23: when the frontier node has no untried legal action, expansion
\* creates no node, returns the frontier node and leaves the working state,
\* which is terminal; simulation then takes no action and returns that
\* state's winner; backpropagation starts at the frontier node; none of
\* these steps raises an error.
C23_ExhaustedFrontier ==
    [][/\ (pc = "expansion"
            /\ PossibleActions(nodes, selected_node, current_state) = {}) =>
             /\ nodes' = nodes
             /\ new_node' = selected_node
             /\ current_state' = current_state
             /\ is_terminal(current_state)
             /\ pc' = "simulation"
             /\ err' = ""
       /\ (pc = "simulation" /\ new_node = selected_node) =>
             /\ current_state' = current_state
             /\ winning_id' = get_winning_id(current_state)
             /\ pc' = "backpropagation"
             /\ err' = ""
       /\ (pc = "backpropagation" /\ new_node = selected_node) =>
             /\ nodes'[selected_node].trials
                   = nodes[selected_node].trials + 1
             /\ playouts' = playouts + 1
             /\ pc' = "while"
             /\ err' = ""]_vars

\* A playout that ended at a terminal node of the tree, won by agent 0, is
\* about to be backpropagated from that node, which has been tried before.
C23_Witness ==
    /\ pc = "backpropagation"
    /\ new_node = selected_node
    /\ winning_id = 0
    /\ nodes[new_node].trials >= 1
    /\ nodes[new_node].children = <<>>

\* C24: a playout goes through selection, expansion, simulation and
\* backpropagation in that order; the elapsed time is read, and the loop
\* left, only at the loop test between playouts; and when the loop is left
\* or search returns, every node created by expansion (every node with a
\* parent) has trials >= 1.
C24_PlayoutRunsToCompletion ==
    [][/\ pc = "selection" => pc' = "selection_loop"
       /\ pc = "selection_loop" => pc' \in {"selection_loop", "expansion"}
       /\ pc = "expansion" => pc' = "simulation"
       /\ pc = "simulation" => pc' \in {"simulation", "backpropagation"}
       /\ pc = "backpropagation" => pc' = "while" /\ playouts' = playouts + 1
       /\ (pc \in InSearch /\ pc # "while") => elapsed' = elapsed
       /\ (pc # "while" /\ pc' = "while") =>
             pc \in {"idle", "backpropagation"}
       /\ pc' = "max_trials" => pc = "while"
       /\ pc' \in {"max_trials", "returned"} =>
             \A n \in DOMAIN nodes' :
                nodes'[n].parent # NoNode => nodes'[n].trials >= 1]_vars

\* The loop was left after two playouts or more, the last of which created
\* a node in a drawn playout.
C24_Witness ==
    /\ pc = "max_trials"
    /\ playouts >= 2
    /\ nodes[Len(nodes)].parent # NoNode
    /\ nodes[Len(nodes)].trials = 1
    /\ nodes[Len(nodes)].wins = 0
    /\ game.draw_rule

\* A playout is under way.
InPlayout ==
    pc \in {"selection", "selection_loop", "expansion", "simulation",
            "backpropagation"}

\* C25 (as claimed): every playout that starts comes to its end, and every
\* search that was called returns.
C25_PlayoutsEndSearchReturns ==
    /\ InPlayout ~> (pc = "while")
    /\ (pc \in InSearch) ~> (pc = "returned")

\* C25 (amended): every playout that starts comes to its end, and every
\* search that was called ends: it returns, or it raises ValueError because
\* the root has no children.
C25_PlayoutsEndSearchEnds ==
    /\ InPlayout ~> (pc = "while")
    /\ (pc \in InSearch) ~>
          \/ pc = "returned"
          \/ /\ pc = "error"
             /\ err = "ValueError"
             /\ ~has_children(nodes[root])

\* A playout in its simulation phase, at least two tokens away from the
\* state search was given and not yet at the end of the game.
C25_Witness ==
    /\ pc = "simulation"
    /\ ~is_terminal(current_state)
    /\ current_state.pile + 2 <= state.pile
    /\ playouts >= 1

\* The node reached from n by following k parent references, NoNode when
\* the chain ends before.
RECURSIVE Up(_, _, _)
Up(ns, n, k) ==
    IF n = NoNode \/ k = 0 THEN n ELSE Up(ns, ns[n].parent, k - 1)

\* C26: the nodes form a tree with single ownership: every child entry of
\* a node n refers to a node whose parent is n, no node has two entries
\* (under two nodes, or under two actions of one node), the actions of a
\* node's entries are distinct, and the parent references of every node
\* end at None (they never cycle).  This holds for every node allocated,
\* so in particular for the nodes reachable from the root.
C26_SingleOwnership ==
    /\ \A n \in DOMAIN nodes : \A i \in DOMAIN nodes[n].children :
          /\ nodes[n].children[i].node \in DOMAIN nodes
          /\ nodes[nodes[n].children[i].node].parent = n
    /\ \A n, m \in DOMAIN nodes :
          \A i \in DOMAIN nodes[n].children, j \in DOMAIN nodes[m].children :
             (nodes[n].children[i].node = nodes[m].children[j].node
                 \/ (n = m /\ nodes[n].children[i].action
                                 = nodes[m].children[j].action))
                => (n = m /\ i = j)
    /\ \A n \in DOMAIN nodes : Up(nodes, n, Len(nodes)) = NoNode
    /\ Subtree(nodes, root) \subseteq DOMAIN nodes

\* After a root-advance along an expanded action, the root's subtree has
\* three levels and the root has two children.
C26_Witness ==
    /\ nodes[root].parent # NoNode
    /\ Len(nodes[root].children) = 2
    /\ \E n \in Subtree(nodes, root) : n # root /\ has_children(nodes[n])

\* C27 (as claimed): the root node has no agent_id (None) in every state.
C27_RootHasNoActor ==
    nodes[root].agent_id = NoAgent

\* The position of action a in the enumeration of the legal actions of s.
IndexOf(s, a) ==
    CHOOSE i \in DOMAIN get_legal_actions(s) : get_legal_actions(s)[i] = a

\* C28: when the tree policy is invoked, selection moves along an action a
\* that is legal in the working state, whose score is at least the score of
\* every legal action, and that comes before every other legal action with
\* the same score in the enumeration of the legal actions.
C28_UCTFirstArgmax ==
    [][PolicyInvoked =>
          \E a \in Actions :
             /\ is_legal_action(current_state, a)
             /\ node' = get_child(nodes[node], a)
             /\ current_state' = take_action(current_state, a)
             /\ \A b \in Actions : is_legal_action(current_state, b) =>
                   /\ UCTScore(nodes, node, b) <= UCTScore(nodes, node, a)
                   /\ (UCTScore(nodes, node, b) = UCTScore(nodes, node, a)
                        /\ b # a)
                         => IndexOf(current_state, a)
                               < IndexOf(current_state, b)]_vars

\* The tree policy is invoked on a node whose two legal actions have the
\* same score.
C28_Witness ==
    /\ PolicyInvoked
    /\ Len(get_legal_actions(current_state)) = 2
    /\ UCTScore(nodes, node, 1) = UCTScore(nodes, node, 2)

\* The legal actions of state s, as a set.
LegalSet(s) == {get_legal_actions(s)[i] : i \in DOMAIN get_legal_actions(s)}

\* C29: at every call of search the actions that have a child under the
\* root are legal actions of the live game; the action a search returns is
\* legal in the live game; and the simulator's game.take_action on it
\* raises no RuntimeError: the game and the root advance together.
C29_ReturnedActionLegal ==
    [][/\ (pc = "idle" /\ pc' = "while") =>
             ChildActions(nodes[root]) \subseteq LegalSet(game)
       /\ pc = "returned" =>
             /\ max_action \in LegalSet(game)
             /\ err' = ""
             /\ pc' = "idle"
             /\ game' = take_action(game, max_action)
             /\ ChildActions(nodes'[root']) \subseteq LegalSet(game')]_vars

\* A search that ran a playout has returned on a game with one token left,
\* where only one of the actions is legal, its root being a former child.
C29_Witness ==
    /\ pc = "returned"
    /\ playouts >= 1
    /\ game.pile = 1
    /\ nodes[root].parent # NoNode

\* The sum of the trials of the nodes in the child entries cs.
RECURSIVE SumTrials(_, _)
SumTrials(ns, cs) ==
    IF cs = <<>> THEN 0
    ELSE ns[Head(cs).node].trials + SumTrials(ns, Tail(cs))

\* C30: whenever no playout is between its expansion and the end of its
\* backpropagation (so in particular at the end of every playout), every
\* node of the root's subtree whose game position is not terminal has
\* trials equal to the sum of the trials of its children, plus 1 when the
\* node was created by expansion (it has a parent), plus 0 when it was
\* created as a root.
C30_TrialsSumOfChildren ==
    pc \notin {"simulation", "backpropagation"} =>
        \A n \in Subtree(nodes, root) :
            ~is_terminal(StateAt(nodes, n, root, game)) =>
                nodes[n].trials =
                    SumTrials(nodes, nodes[n].children)
                       + (IF nodes[n].parent # NoNode THEN 1 ELSE 0)

\* A playout has just ended in a tree whose root was created by expansion,
\* has two children and has been passed through four times or more.
C30_Witness ==
    /\ pc = "while"
    /\ playouts >= 1
    /\ nodes[root].parent # NoNode
    /\ Len(nodes[root].children) = 2
    /\ nodes[root].trials >= 4

\* The fields of MDP and Gridworld that step and undo assign.
Bookkeeping(m) ==
    <<m.timesteps, m.total_reward, m.reward_history, m.player_pos,
      m.terminal, m.previous_positions>>

====
